---- MODULE Spec2Model ----
(***************************************************************************)
(* A model of RedisStore (nativelink-store/src/redis_store.rs): the        *)
(* existence check has_with_results, the streamed ingest update with its   *)
(* temporary key and rename, and the windowed ranged read get_part_ref,    *)
(* running as concurrent tasks against one Redis keyspace.                 *)
(*                                                                         *)
(* Scaling.  Bytes are small integers, a blob is a sequence of bytes.      *)
(* CHUNK_SIZE is 2 instead of 64 * 1024 and the machine word is scaled so  *)
(* that isize::MAX is ISIZE_MAX = 15 and usize::MAX is 2 * ISIZE_MAX + 1:  *)
(* blobs shorter than, equal to and longer than one window, and offsets    *)
(* and lengths on both sides of isize::MAX, all fit in the bounds.         *)
(***************************************************************************)
EXTENDS Integers, Sequences, FiniteSets, TLC

\* ------------------------------------------------------------------ bounds

\* Concurrent update calls (each slot carries one call).
NumUpdates == 2
\* Longest stream, in data chunks, and longest data chunk, in bytes.
MaxChunks == 2
MaxChunkLen == 2
\* Longest blob the backend holds before the store is used.
MaxInitBlob == 5
\* Longest digest sequence handed to has_with_results.
MaxDigests == 3
\* Largest small offset and length handed to get_part_ref (the values around
\* isize::MAX and usize::MAX are added to these).
MaxOffset == 6
MaxLength == 6
\* Most bytes a misbehaving backend sends back beyond the window asked for.
MaxExtra == 2

\* --------------------------------------------------------- program constants

\* const CHUNK_SIZE: isize = 64 * 1024, scaled.
CHUNK_SIZE == 2
\* isize::MAX, scaled; usize::MAX follows from it.
ISIZE_MAX == 15
USIZE_MAX == 2 * ISIZE_MAX + 1

\* ------------------------------------------------------------------ digests

\* The hash reserved for empty content.
EMPTY_HASH == "e3b0"

ZERO_DIGEST == [hash |-> EMPTY_HASH, size_bytes |-> 0]
\* Two digests that are not the zero digest although each shares one field
\* with it: a declared size of 0 under another hash, the reserved hash under
\* another size.
DigestA == [hash |-> "aaaa", size_bytes |-> 0]
DigestB == [hash |-> EMPTY_HASH, size_bytes |-> 3]

Digests == {ZERO_DIGEST, DigestA, DigestB}

is_zero_digest(digest) == digest.size_bytes = 0 /\ digest.hash = EMPTY_HASH

\* format!("{}-{}", digest.hash_str(), digest.size_bytes): the pair of both
\* fields; the hash has a fixed width, so the text determines the pair.
digest_to_key(digest) == <<digest.hash, digest.size_bytes>>

\* format!("temp-{}", name)
TempKey(name) == <<"temp", name>>

\* temp_name_generator_fn of RedisStore::new: a fresh UUID per call, here the
\* n-th name handed out.
TempNameFixed(n) == 0
temp_name_generator_fn(n) == n

\* ------------------------------------------------------------------- helpers

Min(a, b) == IF a <= b THEN a ELSE b

\* --------------------------------------------------------- integer widths

\* usize::saturating_add
usize_saturating_add(a, b) == Min(a + b, USIZE_MAX)
\* isize::saturating_add, for b >= 0
isize_saturating_add(a, b) == Min(a + b, ISIZE_MAX)
\* `x as isize` of a usize: two's complement reinterpretation.
as_isize(x) == IF x > ISIZE_MAX THEN x - (USIZE_MAX + 1) ELSE x
\* isize::try_from(x).is_ok() of a usize
isize_try_from_ok(x) == x <= ISIZE_MAX

\* Option<usize>: None is NoneLen, Some(n) is n.
NoneLen == -1
unwrap_or(length, default) == IF length = NoneLen THEN default ELSE length

\* ------------------------------------------------------------ Redis commands
\* The keyspace is a function from the keys that exist to their values.

EmptyDb == [k \in {} |-> <<>>]

\* STRLEN key: 0 for a key that does not exist.
STRLEN(kv, key) == IF key \in DOMAIN kv THEN Len(kv[key]) ELSE 0

\* EXISTS key
EXISTS(kv, key) == key \in DOMAIN kv

\* APPEND key value: creates the key when it does not exist.
APPEND(kv, key, value) ==
    IF key \in DOMAIN kv
    THEN [kv EXCEPT ![key] = @ \o value]
    ELSE [k \in DOMAIN kv \cup {key} |-> IF k = key THEN value ELSE kv[k]]

\* RENAME src dst fails when src does not exist.
RENAME_ok(kv, src, dst) == src \in DOMAIN kv

\* RENAMENX src dst: a rename that leaves an existing dst alone.
RenameIfAbsent(kv, src, dst) ==
    IF dst \in DOMAIN kv
    THEN [k \in DOMAIN kv \ {src} |-> kv[k]]
    ELSE [k \in (DOMAIN kv \ {src}) \cup {dst} |-> IF k = dst THEN kv[src] ELSE kv[k]]

\* RENAME src dst: dst takes the value of src, whatever it held; src is gone.
RENAME(kv, src, dst) ==
    IF src = dst THEN kv
    ELSE [k \in (DOMAIN kv \ {src}) \cup {dst} |-> IF k = dst THEN kv[src] ELSE kv[k]]

\* GETRANGE key start end: both ends inclusive, negative indexes count from
\* the end of the value, the end is clamped to the value's last byte.
GETRANGE(kv, key, start, end) ==
    LET s == IF key \in DOMAIN kv THEN kv[key] ELSE <<>>
        n == Len(s)
        st1 == IF start < 0 THEN n + start ELSE start
        en1 == IF end < 0 THEN n + end ELSE end
        st2 == IF st1 < 0 THEN 0 ELSE st1
        en2 == IF en1 < 0 THEN 0 ELSE en1
        en3 == IF en2 >= n THEN n - 1 ELSE en2
    IN  IF start < 0 /\ end < 0 /\ start > end THEN <<>>
        ELSE IF n = 0 \/ st2 > en3 THEN <<>>
        ELSE SubSeq(s, st2 + 1, en3 + 1)

RECURSIVE ExecAppends(_, _, _)
\* MULTI; APPEND key chunk, for each queued chunk in order; EXEC.
ExecAppends(kv, key, chunks) ==
    IF chunks = <<>> THEN kv
    ELSE ExecAppends(APPEND(kv, key, Head(chunks)), key, Tail(chunks))

\* -------------------------------------------------------------------- state

Updates == 1 .. NumUpdates

\* Option<usize> of a result slot: None is NoSize, Some(n) is n.
NoSize == -1

VARIABLES
    db,      \* the Redis keyspace
    db0,     \* the keyspace as it was when the store was constructed
    names,   \* how many temporary names the generator has handed out
    upd,     \* upd[u]: the update call of slot u
    chan,    \* chan[u]: the stream of update call u, producer side and queue
    get,     \* the get_part_ref call
    wr,      \* the write-half handed to get_part_ref
    has      \* the has_with_results call
\* Each call carries in `cmds` the backend commands it has issued so far, in
\* order, each with whether the backend answered it (ok) or it failed.

vars == <<db, db0, names, upd, chan, get, wr, has>>

\* The byte at position i of the stream of call u: every call has bytes of
\* its own, so a value says whose bytes it holds.
StreamByte(u, i) == 10 * u + i

\* The shapes of a stream: the lengths of its data chunks, none of them empty.
Shapes == UNION {[1 .. n -> 1 .. MaxChunkLen] : n \in 0 .. MaxChunks}

RECURSIVE ShapeSum(_)
ShapeSum(shape) == IF shape = <<>> THEN 0 ELSE Head(shape) + ShapeSum(Tail(shape))

\* The data chunks of the stream of call u with the given shape.
StreamOf(u, shape) ==
    [c \in 1 .. Len(shape) |->
        [i \in 1 .. shape[c] |-> StreamByte(u, ShapeSum(SubSeq(shape, 1, c - 1)) + i)]]

\* A blob the backend held before the store was used.
InitBlob(n) == [i \in 1 .. n |-> 50 + i]

\* The keyspaces the store may be constructed over: nothing; values of any
\* length (the empty value included) written by someone else under the key of
\* DigestA, with a value under the key of the zero digest; and one with a
\* value under every key.
InitDbs ==
    {EmptyDb} \cup
    { [k \in {digest_to_key(ZERO_DIGEST), digest_to_key(DigestA)} |->
          IF k = digest_to_key(DigestA) THEN InitBlob(n) ELSE InitBlob(1)]
      : n \in 0 .. MaxInitBlob } \cup
    { [k \in {digest_to_key(d) : d \in Digests} |->
          IF k = digest_to_key(DigestA) THEN InitBlob(3)
          ELSE IF k = digest_to_key(DigestB) THEN InitBlob(2) ELSE InitBlob(1)] }

IdleUpdate ==
    [pc |-> "idle", digest |-> ZERO_DIGEST, temp_key |-> TempKey(0), pipe |-> <<>>,
     result |-> "None", wrote |-> {}, overwritten |-> FALSE, cmds |-> <<>>]

IdleChan == [src |-> <<>>, sent |-> 0, buf |-> <<>>, state |-> "open"]

IdleGet ==
    [pc |-> "idle", digest |-> ZERO_DIGEST, offset |-> 0, length |-> NoneLen,
     data_received |-> 0, current_start |-> 0, current_end |-> 0, max_length |-> 0,
     end_position |-> 0, chunk |-> <<>>, was_partial_data |-> FALSE, result |-> "None",
     moved |-> FALSE, cmds |-> <<>>]

IdleWriter == [out |-> <<>>, closed |-> FALSE]

IdleHas ==
    [pc |-> "idle", digests |-> <<>>, results |-> <<>>, result |-> "None", cmds |-> <<>>]

Init ==
    /\ db \in InitDbs
    /\ db0 = db
    /\ names = 0
    /\ upd = [u \in Updates |-> IdleUpdate]
    /\ chan = [u \in Updates |-> IdleChan]
    /\ get = IdleGet
    /\ wr = IdleWriter
    /\ has = IdleHas

\* ------------------------------------------------------- the stream's producer
\* The caller of update holds the write-half: it sends its data chunks, then
\* the end-of-stream marker (a zero-length chunk), or drops the half before.

ProducerSend(u) ==
    /\ upd[u].pc # "idle"
    /\ chan[u].state = "open"
    /\ chan[u].sent < Len(chan[u].src)
    /\ chan' = [chan EXCEPT ![u].sent = @ + 1,
                            ![u].buf = Append(@, chan[u].src[chan[u].sent + 1])]
    /\ UNCHANGED <<db, db0, names, upd, get, wr, has>>

ProducerEof(u) ==
    /\ upd[u].pc # "idle"
    /\ chan[u].state = "open"
    /\ chan[u].sent = Len(chan[u].src)
    /\ chan' = [chan EXCEPT ![u].state = "eof", ![u].buf = Append(@, <<>>)]
    /\ UNCHANGED <<db, db0, names, upd, get, wr, has>>

\* The write-half is dropped before the end-of-stream marker was sent.
ProducerDrop(u) ==
    /\ upd[u].pc # "idle"
    /\ chan[u].state = "open"
    /\ chan' = [chan EXCEPT ![u].state = "dropped"]
    /\ UNCHANGED <<db, db0, names, upd, get, wr, has>>

\* reader.recv() can return: a chunk is queued, or the write-half is gone.
recv_ready(c) == c.buf # <<>> \/ c.state = "dropped"
\* reader.recv() fails: nothing is queued and the write-half was dropped
\* without the end-of-stream marker.
recv_is_err(c) == c.buf = <<>> /\ c.state = "dropped"

\* ----------------------------------------------------------------- update

UpdateStart(u, digest, shape) ==
    /\ upd[u].pc = "idle"
    /\ upd' = [upd EXCEPT ![u] =
                 [IdleUpdate EXCEPT !.pc = "recv", !.digest = digest,
                                    !.temp_key = TempKey(temp_name_generator_fn(names))]]
    /\ names' = names + 1
    /\ chan' = [chan EXCEPT ![u] = [IdleChan EXCEPT !.src = StreamOf(u, shape)]]
    /\ UNCHANGED <<db, db0, get, wr, has>>

\* What update does with an error of reader.recv(): the `?` returns it.
RecvErrorAsEof == "flush"
on_recv_error == "done"

\* What update does with the end-of-stream marker when the digest is the zero
\* digest: return Ok(()).
ZeroEofCommits == "flush"
on_zero_eof == "done"

\* pipe.cmd("APPEND").arg(&temp_key).arg(&chunk[..]): the command joins the
\* end of the pipeline.
QueueFirst(pipe, chunk) == <<chunk>> \o pipe
queue_append(pipe, chunk) == Append(pipe, chunk)

\* Where update goes after it queued a data chunk: back to reader.recv().
CommitAfterChunk == "flush"
after_chunk == "recv"

\* One reader.recv().await of the loop of update, and what follows it up to
\* the next await: the chunk is queued on the pipeline as an APPEND to the
\* temporary key, or the end-of-stream marker ends the loop.
UpdateRecv(u) ==
    /\ upd[u].pc = "recv"
    /\ recv_ready(chan[u])
    /\ IF recv_is_err(chan[u])
       THEN /\ upd' = [upd EXCEPT ![u].pc = on_recv_error,
                                  ![u].result = IF on_recv_error = "done" THEN "RecvErr" ELSE @]
            /\ chan' = chan
       ELSE LET chunk == Head(chan[u].buf) IN
            /\ chan' = [chan EXCEPT ![u].buf = Tail(@)]
            /\ IF chunk = <<>>
               THEN IF is_zero_digest(upd[u].digest)
                    THEN upd' = [upd EXCEPT ![u].pc = on_zero_eof,
                                            ![u].result = IF on_zero_eof = "done" THEN "Ok" ELSE @]
                    ELSE upd' = [upd EXCEPT ![u].pc = "flush"]
               ELSE upd' = [upd EXCEPT ![u].pipe = queue_append(@, chunk),
                                       ![u].pc = after_chunk]
    /\ UNCHANGED <<db, db0, names, get, wr, has>>

\* The key the queued APPENDs name: pipe.cmd("APPEND").arg(&temp_key).
AppendToFinalKey(call) == digest_to_key(call.digest)
append_key(call) == call.temp_key

\* pipe.query_async: the queued APPENDs run as one MULTI/EXEC batch. A
\* pipeline with no command sends nothing and succeeds.
UpdateFlush(u) ==
    /\ upd[u].pc = "flush"
    /\ db' = ExecAppends(db, append_key(upd[u]), upd[u].pipe)
    /\ upd' = [upd EXCEPT ![u].pc = "rename",
                          ![u].wrote = IF upd[u].pipe = <<>> THEN @ ELSE @ \cup {append_key(upd[u])},
                          ![u].cmds = IF upd[u].pipe = <<>> THEN @
                                      ELSE Append(@, [cmd |-> "EXEC", ok |-> TRUE])]
    /\ UNCHANGED <<db0, names, chan, get, wr, has>>

\* What update does when the append batch fails: map_err(from_redis_err)?
\* returns the error.
BatchErrorSwallowed == "rename"
on_batch_error == "done"

\* The batch fails (from_redis_err): the connection broke before the EXEC
\* was run, or after it and before its reply arrived. update returns the
\* error and the rename is not issued.
UpdateFlushFail(u, applied) ==
    /\ upd[u].pc = "flush"
    /\ upd[u].pipe # <<>>
    /\ db' = IF applied THEN ExecAppends(db, append_key(upd[u]), upd[u].pipe) ELSE db
    /\ upd' = [upd EXCEPT ![u].pc = on_batch_error,
                          ![u].result = IF on_batch_error = "done" THEN "Internal" ELSE @,
                          ![u].wrote = IF applied THEN @ \cup {append_key(upd[u])} ELSE @,
                          ![u].cmds = Append(@, [cmd |-> "EXEC", ok |-> FALSE])]
    /\ UNCHANGED <<db0, names, chan, get, wr, has>>

\* The bookkeeping of a RENAME of call u that reached the backend: the calls
\* that had renamed onto the same key are overwritten, a read of that key in
\* progress has seen the key move.
Renamed(u, result) ==
    LET final == digest_to_key(upd[u].digest) IN
    /\ upd' = [v \in Updates |->
                 IF v = u
                 THEN [upd[u] EXCEPT !.pc = "done", !.result = result,
                                     !.wrote = @ \cup {upd[u].temp_key, final},
                                     !.cmds = Append(@, [cmd |-> "RENAME", ok |-> result = "Ok"])]
                 ELSE IF final \in upd[v].wrote /\ digest_to_key(upd[v].digest) = final
                      THEN [upd[v] EXCEPT !.overwritten = TRUE]
                      ELSE upd[v]]
    /\ get' = IF get.pc # "idle" /\ digest_to_key(get.digest) = final
              THEN [get EXCEPT !.moved = TRUE] ELSE get

\* conn.rename(temp_key, digest_to_key(&digest)): fails when the temporary
\* key does not exist.
UpdateRename(u) ==
    /\ upd[u].pc = "rename"
    /\ IF RENAME_ok(db, upd[u].temp_key, digest_to_key(upd[u].digest))
       THEN /\ db' = RENAME(db, upd[u].temp_key, digest_to_key(upd[u].digest))
            /\ Renamed(u, "Ok")
       ELSE /\ upd' = [upd EXCEPT ![u].pc = "done", ![u].result = "Internal",
                                  ![u].cmds = Append(@, [cmd |-> "RENAME", ok |-> FALSE])]
            /\ UNCHANGED <<db, get>>
    /\ UNCHANGED <<db0, names, chan, wr, has>>

\* The RENAME fails on the connection (from_redis_err), having reached the
\* backend or not.
UpdateRenameFail(u, applied) ==
    /\ upd[u].pc = "rename"
    /\ IF applied /\ RENAME_ok(db, upd[u].temp_key, digest_to_key(upd[u].digest))
       THEN /\ db' = RENAME(db, upd[u].temp_key, digest_to_key(upd[u].digest))
            /\ Renamed(u, "Internal")
       ELSE /\ upd' = [upd EXCEPT ![u].pc = "done", ![u].result = "Internal",
                                  ![u].cmds = Append(@, [cmd |-> "RENAME", ok |-> FALSE])]
            /\ UNCHANGED <<db, get>>
    /\ UNCHANGED <<db0, names, chan, wr, has>>

\* The keyspaces the update specifications start from: nothing, and a value
\* under every key.
UpdateDbs == {kv \in InitDbs : kv = EmptyDb \/ digest_to_key(DigestB) \in DOMAIN kv}

InitUpdate == Init /\ db \in UpdateDbs

\* The steps of the update call of slot u and of its producer.
NextUpdateOf(u) ==
    \/ \E digest \in Digests, shape \in Shapes : UpdateStart(u, digest, shape)
    \/ ProducerSend(u)
    \/ ProducerEof(u)
    \/ ProducerDrop(u)
    \/ UpdateRecv(u)
    \/ UpdateFlush(u)
    \/ UpdateRename(u)

NextUpdate == \E u \in Updates : NextUpdateOf(u)

\* Backend commands that fail.
NextUpdateFault ==
    \E u \in Updates, applied \in BOOLEAN :
        \/ UpdateFlushFail(u, applied)
        \/ UpdateRenameFail(u, applied)

\* Concurrent update calls over a backend that answers every command.
SpecUpdate == InitUpdate /\ [][NextUpdate]_vars

\* Concurrent update calls over a backend whose commands may fail.
SpecUpdateFault == InitUpdate /\ [][NextUpdate \/ NextUpdateFault]_vars

\* ------------------------------------------------------------- get_part_ref

\* The offsets and lengths a caller may pass: the small ones, and the ones
\* around isize::MAX and usize::MAX.
Offsets == (0 .. MaxOffset) \cup {ISIZE_MAX, ISIZE_MAX + 1, USIZE_MAX}
Lengths == {NoneLen} \cup (0 .. MaxLength) \cup {ISIZE_MAX, ISIZE_MAX + 1, USIZE_MAX}

\* writer.send(..) and writer.send_eof() fail once the consumer has dropped
\* the read-half.
can_send(w) == ~w.closed

\* writer.send_eof(): the end-of-stream marker is a zero-length chunk.
SendNothing(w) == w
send_eof(w) == [w EXCEPT !.out = Append(@, <<>>)]
\* writer.send(chunk)
send(w, chunk) == [w EXCEPT !.out = Append(@, chunk)]

\* length.unwrap_or(isize::MAX as usize)
max_length_of(length) == unwrap_or(length, ISIZE_MAX)

\* offset.saturating_add(max_length), which isize::try_from must accept.
end_position_of(offset, length) == usize_saturating_add(offset, max_length_of(length))

\* The call up to its first await: the zero digest gets its end-of-stream
\* marker at once; a length of Some(0) goes to the existence check; otherwise
\* the window loop is set up, unless offset + max_length does not fit isize.
GetStart(digest, offset, length) ==
    /\ get.pc = "idle"
    /\ LET call == [IdleGet EXCEPT !.digest = digest, !.offset = offset, !.length = length] IN
       IF is_zero_digest(digest)
       THEN IF can_send(wr)
            THEN /\ wr' = send_eof(wr)
                 /\ get' = [call EXCEPT !.pc = "done", !.result = "Ok"]
            ELSE /\ wr' = wr
                 /\ get' = [call EXCEPT !.pc = "done", !.result = "SendErr"]
       ELSE /\ wr' = wr
            /\ IF length = 0
               THEN get' = [call EXCEPT !.pc = "exists"]
               ELSE IF ~isize_try_from_ok(end_position_of(offset, length))
               THEN get' = [call EXCEPT !.pc = "done", !.result = "ConvertErr"]
               ELSE get' = [call EXCEPT !.pc = "loop",
                                        !.current_start = as_isize(offset),
                                        !.max_length = max_length_of(length),
                                        !.end_position = end_position_of(offset, length)]
    /\ UNCHANGED <<db, db0, names, upd, chan, has>>

\* conn.exists::<_, bool>(digest_to_key(&digest))
ExistsByLength(kv, digest) == STRLEN(kv, digest_to_key(digest)) > 0
exists(kv, digest) == EXISTS(kv, digest_to_key(digest))

\* The existence check of the length == Some(0) form.
GetExists ==
    /\ get.pc = "exists"
    /\ LET cmds == Append(get.cmds, [cmd |-> "EXISTS", start |-> 0, end |-> 0, ok |-> TRUE]) IN
       IF exists(db, get.digest)
       THEN IF can_send(wr)
            THEN /\ wr' = send_eof(wr)
                 /\ get' = [get EXCEPT !.pc = "done", !.result = "Ok", !.cmds = cmds]
            ELSE /\ wr' = wr
                 /\ get' = [get EXCEPT !.pc = "done", !.result = "SendErr", !.cmds = cmds]
       ELSE /\ wr' = wr
            /\ get' = [get EXCEPT !.pc = "done", !.result = "NotFound", !.cmds = cmds]
    /\ UNCHANGED <<db, db0, names, upd, chan, has>>

\* The EXISTS fails on the connection: map_err(from_redis_err)? returns.
GetExistsFail ==
    /\ get.pc = "exists"
    /\ get' = [get EXCEPT !.pc = "done", !.result = "Internal",
                          !.cmds = Append(@, [cmd |-> "EXISTS", start |-> 0, end |-> 0,
                                              ok |-> FALSE])]
    /\ UNCHANGED <<db, db0, names, upd, chan, wr, has>>

\* min(current_start.saturating_add(CHUNK_SIZE), end_position) - 1
current_end_of(current_start, end_position) ==
    Min(isize_saturating_add(current_start, CHUNK_SIZE), end_position) - 1

\* chunk.len() as isize != current_end + 1 - current_start
was_partial_data_of(chunk, current_start, current_end) ==
    Len(chunk) # current_end + 1 - current_start

\* current_start += chunk.len() as isize
NextStartStuck(current_start, chunk) == current_start
next_start(current_start, chunk) == current_start + Len(chunk)

\* The window the next GETRANGE asks for, as it is logged.
WindowCmd(ok) ==
    [cmd |-> "GETRANGE", start |-> get.current_start,
     end |-> current_end_of(get.current_start, get.end_position), ok |-> ok]

\* One conn.getrange(key, current_start, current_end).await of the loop, the
\* backend sending back up to `extra` bytes past the end it was asked for
\* (none, when it keeps to the command): an empty window ends the read; any
\* other is counted and goes to the writer.
GetRangeReply(extra) ==
    /\ get.pc = "loop"
    /\ LET current_end == current_end_of(get.current_start, get.end_position)
           chunk == GETRANGE(db, digest_to_key(get.digest), get.current_start,
                             current_end + extra)
       IN  IF chunk = <<>>
           THEN /\ wr' = IF can_send(wr) THEN send_eof(wr) ELSE wr
                /\ get' = [get EXCEPT !.pc = "done",
                                      !.result = IF can_send(wr) THEN "Ok" ELSE "SendErr",
                                      !.current_end = current_end,
                                      !.cmds = Append(@, WindowCmd(TRUE))]
           ELSE /\ wr' = wr
                /\ get' = [get EXCEPT
                             !.pc = "send",
                             !.current_end = current_end,
                             !.chunk = chunk,
                             !.was_partial_data =
                                 was_partial_data_of(chunk, get.current_start, current_end),
                             !.current_start = next_start(@, chunk),
                             !.data_received = @ + Len(chunk),
                             !.cmds = Append(@, WindowCmd(TRUE))]
    /\ UNCHANGED <<db, db0, names, upd, chan, has>>

\* The backend keeps to the command.
GetRange == GetRangeReply(0)

\* The backend misbehaves: its reply is longer than the window asked for.
GetRangeLong ==
    \E extra \in 1 .. MaxExtra :
        /\ get.pc = "loop"
        /\ LET current_end == current_end_of(get.current_start, get.end_position) IN
           Len(GETRANGE(db, digest_to_key(get.digest), get.current_start, current_end + extra))
               > current_end + 1 - get.current_start
        /\ GetRangeReply(extra)

\* The GETRANGE fails on the connection: map_err(from_redis_err)? returns.
GetRangeFail ==
    /\ get.pc = "loop"
    /\ get' = [get EXCEPT !.pc = "done", !.result = "Internal",
                          !.cmds = Append(@, WindowCmd(FALSE))]
    /\ UNCHANGED <<db, db0, names, upd, chan, wr, has>>

\* data_received == max_length || was_partial_data
read_is_over(data_received, max_length, was_partial_data) ==
    data_received = max_length \/ was_partial_data

\* What the writer is sent when the read is over after a chunk: the
\* end-of-stream marker, and the loop breaks.
NoEofAfterLastChunk(w) == w
after_last_chunk(w) == send_eof(w)

\* writer.send(chunk).await and the rest of the iteration: the read ends when
\* the cap is reached or the window came back short.
GetSend ==
    /\ get.pc = "send"
    /\ IF ~can_send(wr)
       THEN /\ wr' = wr
            /\ get' = [get EXCEPT !.pc = "done", !.result = "SendErr", !.chunk = <<>>]
       ELSE IF read_is_over(get.data_received, get.max_length, get.was_partial_data)
       THEN /\ wr' = after_last_chunk(send(wr, get.chunk))
            /\ get' = [get EXCEPT !.pc = "done", !.result = "Ok", !.chunk = <<>>]
       ELSE /\ wr' = send(wr, get.chunk)
            /\ IF get.data_received > get.max_length
               THEN get' = [get EXCEPT !.pc = "done", !.result = "ExceedsErr", !.chunk = <<>>]
               ELSE get' = [get EXCEPT !.pc = "loop", !.chunk = <<>>]
    /\ UNCHANGED <<db, db0, names, upd, chan, has>>

\* The consumer drops the read-half while the call is in progress.
ConsumerDrop ==
    /\ get.pc \notin {"idle", "done"}
    /\ can_send(wr)
    /\ wr' = [wr EXCEPT !.closed = TRUE]
    /\ UNCHANGED <<db, db0, names, upd, chan, get, has>>

\* The consumer takes the last data chunk and drops the read-half before the
\* end-of-stream marker is sent: writer.send_eof() fails.
GetSendEofFail ==
    /\ get.pc = "send"
    /\ can_send(wr)
    /\ read_is_over(get.data_received, get.max_length, get.was_partial_data)
    /\ wr' = [send(wr, get.chunk) EXCEPT !.closed = TRUE]
    /\ get' = [get EXCEPT !.pc = "done", !.result = "SendErr", !.chunk = <<>>]
    /\ UNCHANGED <<db, db0, names, upd, chan, has>>

NextGet ==
    \/ \E digest \in Digests, offset \in Offsets, length \in Lengths :
           GetStart(digest, offset, length)
    \/ GetExists
    \/ GetRange
    \/ GetSend

\* get_part_ref with every offset and length, over a keyspace nobody writes.
SpecGet == Init /\ [][NextGet]_vars

\* Backend commands of get_part_ref that fail.
NextGetFault == GetExistsFail \/ GetRangeFail

\* The same, over a backend whose commands may fail and a consumer that may
\* drop the read-half.
SpecGetFault ==
    Init /\ [][NextGet \/ NextGetFault \/ ConsumerDrop \/ GetSendEofFail]_vars

\* The same, over a backend that may send back more than it was asked for.
SpecGetUnruly == Init /\ [][NextGet \/ GetRangeLong]_vars

\* The same, over a backend that answers every command and a consumer that
\* takes every chunk: a call that can take its next step eventually does.
SpecGetLive ==
    SpecGet /\ WF_vars(GetExists) /\ WF_vars(GetRange) /\ WF_vars(GetSend)

\* --------------------------------------------------------- has_with_results

DigestSeqs == UNION {[1 .. n -> Digests] : n \in 0 .. MaxDigests}

\* What the MULTI/EXEC batch of one STRLEN per digest returns.
StrlenReply(kv, digests) ==
    [i \in 1 .. Len(digests) |-> STRLEN(kv, digest_to_key(digests[i]))]

\* *result = if size == 0 { None } else { Some(size) }
SizeAlwaysSome(size) == size
result_of_size(size) == IF size = 0 THEN NoSize ELSE size

\* zero_digest_indexes: the positions of the zero digests.
ZeroIndexesNone(digests) == {}
zero_digest_indexes(digests) == {i \in 1 .. Len(digests) : is_zero_digest(digests[i])}

\* The sizes zipped into the results, then Some(0) at the zero digests.
fill_results(digests, digest_sizes, results) ==
    [i \in 1 .. Len(results) |->
        IF i \in zero_digest_indexes(digests) THEN 0
        ELSE IF i <= Len(digest_sizes) THEN result_of_size(digest_sizes[i])
        ELSE results[i]]

\* The batch: pipe.strlen(digest_to_key(digest)) for each digest of the
\* sequence, in order.
strlen_pipe(digests) == [i \in 1 .. Len(digests) |-> digest_to_key(digests[i])]

\* digest_sizes.len() != results.len()
MismatchIgnored(digest_sizes, results) == FALSE
sizes_mismatch(digest_sizes, results) == Len(digest_sizes) # Len(results)

\* The batch as it is logged, with what came back. A pipeline with no command
\* (no digest was passed) sends nothing.
BatchCmd(digests, ok, reply) ==
    IF strlen_pipe(digests) = <<>> THEN <<>>
    ELSE <<[cmd |-> "EXEC", keys |-> strlen_pipe(digests), ok |-> ok, reply |-> reply]>>

\* digests.len() == 1 && is_zero_digest(&digests[0])
lone_zero_digest(digests) == Len(digests) = 1 /\ is_zero_digest(digests[1])

\* has_with_results from the reply of the batch on: a reply of another length
\* than results is an error, otherwise the sizes fill the results.
HasAnswered(digests, digest_sizes) ==
    LET results == [i \in 1 .. Len(digests) |-> NoSize] IN
    IF sizes_mismatch(digest_sizes, results)
    THEN [pc |-> "done", digests |-> digests, results |-> results,
          result |-> "MismatchErr", cmds |-> BatchCmd(digests, TRUE, digest_sizes)]
    ELSE [pc |-> "done", digests |-> digests,
          results |-> fill_results(digests, digest_sizes, results),
          result |-> "Ok", cmds |-> BatchCmd(digests, TRUE, digest_sizes)]

\* has_with_results(digests, results), results being as long as digests and
\* holding None: a lone zero digest is answered at once, anything else by one
\* batch of STRLENs.
HasWithResults(digests) ==
    /\ has.pc = "idle"
    /\ IF lone_zero_digest(digests)
       THEN has' = [pc |-> "done", digests |-> digests, results |-> <<0>>, result |-> "Ok",
                    cmds |-> <<>>]
       ELSE has' = HasAnswered(digests, StrlenReply(db, digests))
    /\ UNCHANGED <<db, db0, names, upd, chan, get, wr>>

\* The batch fails on the connection: map_err(from_redis_err)? returns, the
\* results are as they were passed in.
HasWithResultsFail(digests) ==
    /\ has.pc = "idle"
    /\ ~lone_zero_digest(digests)
    /\ strlen_pipe(digests) # <<>>
    /\ has' = [pc |-> "done", digests |-> digests,
               results |-> [i \in 1 .. Len(digests) |-> NoSize],
               result |-> "Internal", cmds |-> BatchCmd(digests, FALSE, <<>>)]
    /\ UNCHANGED <<db, db0, names, upd, chan, get, wr>>

\* The sizes a misbehaving backend may report, and its replies: of any length
\* up to one more than the longest batch.
ReplySizes == {0, 3}
Replies == UNION {[1 .. n -> ReplySizes] : n \in 0 .. MaxDigests + 1}

\* The backend misbehaves: it answers the batch with another number of sizes
\* than the batch has commands.
HasWithResultsUnruly(digests, digest_sizes) ==
    /\ has.pc = "idle"
    /\ ~lone_zero_digest(digests)
    /\ strlen_pipe(digests) # <<>>
    /\ Len(digest_sizes) # Len(strlen_pipe(digests))
    /\ has' = HasAnswered(digests, digest_sizes)
    /\ UNCHANGED <<db, db0, names, upd, chan, get, wr>>

NextHas == \E digests \in DigestSeqs : HasWithResults(digests)

SpecHas == Init /\ [][NextHas]_vars

\* has_with_results over a backend whose batch may fail.
NextHasFault == \E digests \in DigestSeqs : HasWithResultsFail(digests)

\* has_with_results over a backend that may answer with the wrong number of
\* sizes.
NextHasUnruly ==
    \E digests \in DigestSeqs, digest_sizes \in Replies :
        HasWithResultsUnruly(digests, digest_sizes)

SpecHasUnruly == Init /\ [][NextHas \/ NextHasUnruly]_vars

\* ------------------------------------------------------------------ errors

\* The kind of the error error_if! returns when its condition holds.
error_if_kind == "Internal"

\* The kind (Code) of the error a call returned: from_redis_err makes every
\* backend failure Internal, make_err!(Code::NotFound, ..) is NotFound, and
\* the two defensive checks go through error_if!.
ErrorKind(result) ==
    IF result \in {"MismatchErr", "ExceedsErr"} THEN error_if_kind ELSE result

\* -------------------------------------------------------------- the store

\* A read of a whole blob: get_part_ref(digest, writer, 0, None).
NextWholeRead ==
    \/ \E digest \in Digests : GetStart(digest, 0, NoneLen)
    \/ GetRange
    \/ GetSend

\* One update call and one read of a whole blob, in any order and overlap.
SpecRoundTrip == InitUpdate /\ [][NextUpdateOf(1) \/ NextWholeRead]_vars

\* One call of each operation, in any order and overlap, over a backend whose
\* every command may fail: an update; a read from offset 0 or 1 of no length,
\* of length Some(0) or of length Some(3); an existence check of up to two
\* digests.
NextFault ==
    \/ NextUpdateOf(1)
    \/ \E applied \in BOOLEAN : UpdateFlushFail(1, applied) \/ UpdateRenameFail(1, applied)
    \/ \E digest \in Digests, offset \in {0, 1}, length \in {NoneLen, 0, 3} :
           GetStart(digest, offset, length)
    \/ GetExists
    \/ GetRange
    \/ GetSend
    \/ NextGetFault
    \/ \E digests \in {ds \in DigestSeqs : Len(ds) <= 2} :
           HasWithResults(digests) \/ HasWithResultsFail(digests)

SpecFault == InitUpdate /\ [][NextFault]_vars

\* Every operation of the store, over a backend whose commands may fail. The
\* specifications above are this one cut down to the operations a claim is
\* about.
Next ==
    NextUpdate \/ NextUpdateFault \/ NextGet \/ NextGetFault \/ NextHas \/ NextHasFault

Spec == Init /\ [][Next]_vars

\* ------------------------------------------------------------------- claims

RECURSIVE Flatten(_)
\* The bytes of a sequence of chunks, in order.
Flatten(chunks) ==
    IF chunks = <<>> THEN <<>> ELSE Head(chunks) \o Flatten(Tail(chunks))

\* s[from .. to), 0-based, for 0 <= from <= to <= Len(s).
Slice(s, from, to) == SubSeq(s, from + 1, to)

\* The update calls that were made.
Called == {u \in Updates : upd[u].pc # "idle"}
\* The whole stream of call u was sent, end-of-stream marker included.
StreamEnded(u) == chan[u].state = "eof"
\* The bytes of the whole stream of call u.
Content(u) == Flatten(chan[u].src)
FinalKey(u) == digest_to_key(upd[u].digest)

\* C1. Atomic commit: whatever update calls run, complete, fail on the
\* backend or are abandoned, the value under the key of a digest is the value
\* the key held before, or the whole content of the stream of one update call
\* for that digest that was sent to its end; never a part of one.
C1_AtomicCommit ==
    \A d \in Digests :
        LET k == digest_to_key(d) IN
        k \in DOMAIN db =>
            \/ k \in DOMAIN db0 /\ db[k] = db0[k]
            \/ \E u \in Called :
                   /\ upd[u].digest = d
                   /\ StreamEnded(u)
                   /\ db[k] = Content(u)

\* C1 witness: a key holds the two-chunk content of one call while another
\* call for the same digest has flushed its own chunks to its temporary key
\* and a third party's value was replaced.
C1_Witness ==
    \E u, v \in Called :
        /\ u # v
        /\ upd[u].digest = upd[v].digest
        /\ upd[u].pc = "done"
        /\ Len(chan[u].src) = 2
        /\ FinalKey(u) \in DOMAIN db0
        /\ FinalKey(u) \in DOMAIN db
        /\ db[FinalKey(u)] = Content(u)
        /\ upd[v].pc = "rename"
        /\ upd[v].temp_key \in DOMAIN db

\* C5 as stated: two ended calls for different digests both return Ok and
\* each key holds the content of its call.
C5_AsStated ==
    \A u, v \in Called :
        ( /\ u # v
          /\ upd[u].digest # upd[v].digest
          /\ upd[u].pc = "done" /\ upd[v].pc = "done"
          /\ StreamEnded(u) /\ StreamEnded(v) )
        => /\ upd[u].result = "Ok"
           /\ ~upd[u].overwritten =>
                  /\ FinalKey(u) \in DOMAIN db
                  /\ db[FinalKey(u)] = Content(u)

\* C5. Two update calls for two different digests, neither the zero digest,
\* whose streams each carry at least one data chunk and are sent to their
\* end, both return Ok under every interleaving, and afterwards the key of
\* each digest holds the content of its own stream (as long as no later call
\* for the same digest replaced it).
C5_DifferentDigests ==
    \A u, v \in Called :
        ( /\ u # v
          /\ upd[u].digest # upd[v].digest
          /\ ~is_zero_digest(upd[u].digest) /\ ~is_zero_digest(upd[v].digest)
          /\ chan[u].src # <<>> /\ chan[v].src # <<>>
          /\ upd[u].pc = "done" /\ upd[v].pc = "done"
          /\ StreamEnded(u) /\ StreamEnded(v) )
        => /\ upd[u].result = "Ok"
           /\ ~upd[u].overwritten =>
                  /\ FinalKey(u) \in DOMAIN db
                  /\ db[FinalKey(u)] = Content(u)

\* C5 witness: both calls are done, for different non-zero digests, with
\* streams of two chunks, and each key holds its own content.
C5_Witness ==
    \E u, v \in Called :
        /\ u # v
        /\ upd[u].digest # upd[v].digest
        /\ ~is_zero_digest(upd[u].digest) /\ ~is_zero_digest(upd[v].digest)
        /\ Len(chan[u].src) = 2 /\ Len(chan[v].src) = 2
        /\ upd[u].result = "Ok" /\ upd[v].result = "Ok"
        /\ db[FinalKey(u)] = Content(u)
        /\ db[FinalKey(v)] = Content(v)

\* C6. An update whose write-half was dropped before the end-of-stream
\* marker never reaches its append batch or its rename; it returns the error
\* of recv, and none of its commands wrote a key: the key of its digest is
\* neither created nor rewritten by it, and not even its temporary key is
\* left behind.
C6_AbandonedIngest ==
    \A u \in Called :
        chan[u].state = "dropped" =>
            /\ upd[u].pc \in {"recv", "done"}
            /\ upd[u].pc = "done" => upd[u].result = "RecvErr"
            /\ upd[u].wrote = {}
            /\ upd[u].temp_key \notin DOMAIN db

\* C6 witness: a call for a non-zero digest returned after its stream was
\* dropped behind two data chunks.
C6_Witness ==
    \E u \in Called :
        /\ chan[u].state = "dropped"
        /\ ~is_zero_digest(upd[u].digest)
        /\ upd[u].pc = "done"
        /\ Len(upd[u].pipe) = 2

\* C9. An update of the zero digest issues no backend command, so it writes
\* no key, and it returns Ok once its stream has ended, whatever data chunks
\* came first; while every call made is for the zero digest the keyspace is
\* what it was.
C9_ZeroDigestUpdate ==
    /\ \A u \in Called :
           is_zero_digest(upd[u].digest) =>
               /\ upd[u].pc \in {"recv", "done"}
               /\ upd[u].wrote = {}
               /\ upd[u].temp_key \notin DOMAIN db
               /\ (upd[u].pc = "done" /\ StreamEnded(u)) => upd[u].result = "Ok"
    /\ (\A u \in Called : is_zero_digest(upd[u].digest)) => db = db0

\* C9 witness: every slot made a call for the zero digest, all returned Ok,
\* and one of them had received two data chunks.
C9_Witness ==
    /\ \A u \in Updates :
           /\ upd[u].pc = "done"
           /\ is_zero_digest(upd[u].digest)
           /\ upd[u].result = "Ok"
    /\ \E u \in Updates : Len(upd[u].pipe) = 2

\* What the writer was sent: data chunks, none of them empty, and then one
\* end-of-stream marker, the data being `bytes`.
Delivered(bytes) ==
    /\ wr.out # <<>>
    /\ wr.out[Len(wr.out)] = <<>>
    /\ \A i \in 1 .. Len(wr.out) - 1 : wr.out[i] # <<>>
    /\ Flatten(wr.out) = bytes

\* The read is over and no rename onto its key happened since it began.
ReadDone == get.pc = "done" /\ ~get.moved
ReadKey == digest_to_key(get.digest)

\* C2. Round trip: once update has returned Ok for a non-zero digest, a read
\* of the whole blob (offset 0, no length) that begins afterwards, with no
\* other rename onto the key, returns Ok having sent the writer the data
\* chunks update received, concatenated in the order it received them (which
\* is the order they were sent in), and then the end-of-stream marker.
C2_RoundTrip ==
    \A u \in Called :
        ( /\ upd[u].result = "Ok"
          /\ ~is_zero_digest(upd[u].digest)
          /\ ~upd[u].overwritten
          /\ ReadDone
          /\ get.digest = upd[u].digest
          /\ get.offset = 0 /\ get.length = NoneLen )
        => /\ get.result = "Ok"
           /\ upd[u].pipe = chan[u].src
           /\ Delivered(Flatten(upd[u].pipe))

\* C2 witness: a blob longer than a window, sent as two chunks, was written
\* and then read back whole.
C2_Witness ==
    \E u \in Called :
        /\ upd[u].result = "Ok"
        /\ Len(upd[u].pipe) = 2
        /\ Len(Content(u)) > CHUNK_SIZE
        /\ ReadDone
        /\ get.digest = upd[u].digest
        /\ get.result = "Ok"
        /\ Len(wr.out) >= 3

\* The bytes a ranged read of `blob` is to deliver: blob[O .. O + min(L, S - O)),
\* nothing when O >= S; a length of None reads to the end.
Expected(blob, offset, length) ==
    IF offset >= Len(blob) THEN <<>>
    ELSE Slice(blob, offset,
               offset + (IF length = NoneLen THEN Len(blob) - offset
                         ELSE Min(length, Len(blob) - offset)))

\* A read of a stored blob of a non-zero digest is over.
StoredReadDone ==
    /\ ReadDone
    /\ ~is_zero_digest(get.digest)
    /\ ReadKey \in DOMAIN db

\* C3 as stated: every read with a length of Some(L), L > 0, of a stored blob
\* returns Ok having delivered blob[O .. O + min(L, S - O)) and then the
\* end-of-stream marker.
C3_AsStated ==
    (StoredReadDone /\ get.length > 0)
        => /\ get.result = "Ok"
           /\ Delivered(Expected(db[ReadKey], get.offset, get.length))

\* The part of C3 the code keeps: the same, for the reads whose offset +
\* length is at most isize::MAX; the others fail in the conversion to isize
\* before any window is requested.
C3_InRange ==
    (StoredReadDone /\ get.length > 0)
        => IF get.offset + get.length <= ISIZE_MAX
           THEN /\ get.result = "Ok"
                /\ Delivered(Expected(db[ReadKey], get.offset, get.length))
           ELSE /\ get.result = "ConvertErr"
                /\ wr.out = <<>>

\* C3_InRange's case: a read capped at two whole windows, which ends inside
\* the blob, is over.
C3_InRangeWitness ==
    /\ StoredReadDone
    /\ get.length = 2 * CHUNK_SIZE
    /\ Len(db[ReadKey]) > get.offset + get.length
    /\ get.result = "Ok"

\* C4 as stated: every read with no length from an offset past 0 of a stored
\* blob returns Ok having delivered blob[O .. S) and then the end-of-stream
\* marker.
C4_AsStated ==
    (StoredReadDone /\ get.length = NoneLen /\ get.offset > 0)
        => /\ get.result = "Ok"
           /\ Delivered(Expected(db[ReadKey], get.offset, get.length))

\* What the code does for C4's reads: every one of them fails in the
\* conversion to isize, and the writer is sent nothing.
C4_AlwaysFails ==
    (StoredReadDone /\ get.length = NoneLen /\ get.offset > 0)
        => /\ get.result = "ConvertErr"
           /\ wr.out = <<>>

\* C10. A read with a length of Some(0) of a non-zero digest, at any offset,
\* fails with NotFound and sends the writer nothing when the key of the
\* digest does not exist; when it exists, whatever its value, the writer is
\* sent the end-of-stream marker alone and the read returns Ok.
C10_ZeroLengthRead ==
    (ReadDone /\ ~is_zero_digest(get.digest) /\ get.length = 0)
        => IF ReadKey \in DOMAIN db
           THEN get.result = "Ok" /\ wr.out = << <<>> >>
           ELSE get.result = "NotFound" /\ wr.out = <<>>

\* C10 witness: such a read of a key that holds the empty value, from an
\* offset past 0, returned Ok.
C10_Witness ==
    /\ ReadDone
    /\ ~is_zero_digest(get.digest)
    /\ get.length = 0
    /\ get.offset > 0
    /\ ReadKey \in DOMAIN db
    /\ db[ReadKey] = <<>>
    /\ get.result = "Ok"

\* The has_with_results call has returned.
HasDone == has.pc = "done"

\* C7. has_with_results is positional: over a backend that answers, it
\* returns Ok with one result per digest, and results[i] is Some(0) when
\* digests[i] is the zero digest, None when the key of digests[i] does not
\* exist or holds the empty value, and Some(length of the value) otherwise.
C7_HasPositional ==
    HasDone =>
        /\ has.result = "Ok"
        /\ Len(has.results) = Len(has.digests)
        /\ \A i \in 1 .. Len(has.digests) :
               LET k == digest_to_key(has.digests[i]) IN
               has.results[i] =
                   IF is_zero_digest(has.digests[i]) THEN 0
                   ELSE IF k \in DOMAIN db /\ Len(db[k]) > 0 THEN Len(db[k])
                   ELSE NoSize

\* C7 witness: a stored digest, the zero digest and a digest that is not
\* stored, in this order, got Some(4), Some(0) and None.
C7_Witness ==
    /\ HasDone
    /\ has.digests = <<DigestA, ZERO_DIGEST, DigestB>>
    /\ has.results = <<4, 0, NoSize>>

\* C8. Wherever the zero digest stands in the sequence, and whatever the
\* backend holds under its key, has_with_results returns Ok with Some(0) at
\* that position.
C8_ZeroDigestPresent ==
    HasDone =>
        \A i \in 1 .. Len(has.digests) :
            is_zero_digest(has.digests[i]) =>
                /\ has.result = "Ok"
                /\ i \in DOMAIN has.results
                /\ has.results[i] = 0

\* C8 witness: the zero digest stood last of three, twice in the sequence,
\* over a backend that holds one byte under its key.
C8_Witness ==
    /\ HasDone
    /\ Len(has.digests) = 3
    /\ has.digests[1] = ZERO_DIGEST
    /\ has.digests[3] = ZERO_DIGEST
    /\ has.digests[2] # ZERO_DIGEST
    /\ STRLEN(db, digest_to_key(ZERO_DIGEST)) = 1
    /\ has.results[3] = 0

\* The calls for digest d that returned Ok.
Succeeded(d) == {u \in Called : upd[u].digest = d /\ upd[u].result = "Ok"}

\* C11. Same-digest race: of the update calls for one non-zero digest that
\* ran with distinct temporary keys and returned Ok, the one whose rename came
\* last is the only one whose content was not replaced by a later rename, and
\* the key of the digest holds exactly the whole stream of that call: nothing
\* of an earlier call is in it, and no temporary key of theirs is left.
C11_LastRenameWins ==
    \A d \in Digests :
        ( /\ ~is_zero_digest(d)
          /\ Succeeded(d) # {}
          /\ \A u, v \in Succeeded(d) : u # v => upd[u].temp_key # upd[v].temp_key )
        => \E w \in Succeeded(d) :
               /\ ~upd[w].overwritten
               /\ \A l \in Succeeded(d) \ {w} : upd[l].overwritten
               /\ digest_to_key(d) \in DOMAIN db
               /\ db[digest_to_key(d)] = Content(w)
               /\ \A u \in Succeeded(d) : upd[u].temp_key \notin DOMAIN db

\* C11 witness: two calls for the same non-zero digest, each with a stream of
\* two chunks, both returned Ok; the key, which held a third party's value,
\* holds the content of the one that renamed last.
C11_Witness ==
    \E u, v \in Called :
        /\ u # v
        /\ upd[u].digest = upd[v].digest
        /\ ~is_zero_digest(upd[u].digest)
        /\ Len(chan[u].src) = 2 /\ Len(chan[v].src) = 2
        /\ upd[u].result = "Ok" /\ upd[v].result = "Ok"
        /\ upd[u].overwritten
        /\ FinalKey(v) \in DOMAIN db0
        /\ db[FinalKey(v)] = Content(v)
        /\ db[FinalKey(v)] # Content(u)

\* How many bytes the writer was sent so far.
BytesSent == Len(Flatten(wr.out))

\* A read with a length of Some(L), L > 0, of a non-zero digest was begun.
CappedRead == get.pc # "idle" /\ ~is_zero_digest(get.digest) /\ get.length > 0

\* C12 as stated: in a read with a length of Some(L), L > 0, the writer is
\* never sent more than L bytes, and a read to which the backend sent back
\* more than L bytes returns the error of the over-delivery check, not Ok.
C12_AsStated ==
    CappedRead =>
        /\ BytesSent <= get.length
        /\ (get.pc = "done" /\ get.data_received > get.max_length)
               => get.result = "ExceedsErr"

\* The part of C12 the code keeps: over a backend that keeps to the window it
\* was asked for, the writer is never sent more than L bytes.
C12_HonestBackend == CappedRead => BytesSent <= get.length

\* What the code does with a reply that takes the bytes received past L: the
\* reply is longer than its window, which ends the read as a short one would;
\* all of it goes to the writer, then the end-of-stream marker, and the call
\* returns Ok. The over-delivery check is never the one to end a read.
C12_OverDelivery ==
    /\ (CappedRead /\ get.pc = "done" /\ get.data_received > get.max_length)
           => /\ get.result = "Ok"
              /\ BytesSent = get.data_received
              /\ wr.out[Len(wr.out)] = <<>>
    /\ get.result # "ExceedsErr"

\* C12_OverDelivery's case: a read capped at 3 bytes returned having sent 4.
C12_OverDeliveryWitness ==
    /\ CappedRead
    /\ get.pc = "done"
    /\ get.length = 3
    /\ BytesSent = 4

\* The batch of the has_with_results call was answered, with `reply`.
Answered(reply) ==
    /\ HasDone
    /\ has.cmds # <<>>
    /\ has.cmds[1].ok
    /\ has.cmds[1].reply = reply

\* C13. When the backend answers the batch with another number of sizes than
\* there are results, has_with_results returns an error of kind Internal and
\* not Ok, and no result was written: each is what the caller passed in.
C13_BatchMismatch ==
    \A reply \in Replies :
        (Answered(reply) /\ Len(reply) # Len(has.digests))
        => /\ has.result = "MismatchErr"
           /\ ErrorKind(has.result) = "Internal"
           /\ has.results = [i \in 1 .. Len(has.digests) |-> NoSize]

\* C13 witness: three digests were asked for and two sizes came back, the
\* first of them not zero; the call returned the error.
C13_Witness ==
    /\ Answered(<<3, 0>>)
    /\ has.digests = <<DigestA, ZERO_DIGEST, DigestB>>
    /\ has.result = "MismatchErr"

\* The keys of the digests that are not the zero digest, in order.
NonZeroKeys(digests) == strlen_pipe(SelectSeq(digests, LAMBDA d : ~is_zero_digest(d)))

\* C14 as stated: has_with_results issues at most one batch; the batch holds
\* a STRLEN for the digests that are not the zero digest and for no other;
\* and when every digest is the zero digest no batch is issued at all.
C14_AsStated ==
    HasDone =>
        /\ Len(has.cmds) <= 1
        /\ has.cmds # <<>> => has.cmds[1].keys = NonZeroKeys(has.digests)
        /\ (\A i \in 1 .. Len(has.digests) : is_zero_digest(has.digests[i]))
               => has.cmds = <<>>

\* What the code does: only a sequence that is the zero digest alone, or
\* empty, is answered without the backend; any other is answered by one batch
\* that holds a STRLEN for every digest, the zero digests included.
C14_QueriesEveryDigest ==
    HasDone =>
        IF lone_zero_digest(has.digests) \/ has.digests = <<>>
        THEN has.cmds = <<>>
        ELSE /\ Len(has.cmds) = 1
             /\ has.cmds[1].keys = strlen_pipe(has.digests)

\* C14_QueriesEveryDigest's case: the zero digest twice, and the batch held
\* two STRLENs of its key.
C14_QueriesEveryDigestWitness ==
    /\ HasDone
    /\ has.digests = <<ZERO_DIGEST, ZERO_DIGEST>>
    /\ Len(has.cmds) = 1
    /\ has.cmds[1].keys = <<digest_to_key(ZERO_DIGEST), digest_to_key(ZERO_DIGEST)>>

\* A command of the call failed: it is the last command the call issued, and
\* the call has returned an error of kind Internal.
FailureEnds(call) ==
    \A i \in 1 .. Len(call.cmds) :
        ~call.cmds[i].ok =>
            /\ i = Len(call.cmds)
            /\ call.pc = "done"
            /\ ErrorKind(call.result) = "Internal"

\* The append batch of update call u failed.
BatchFailed(u) ==
    \E i \in 1 .. Len(upd[u].cmds) : upd[u].cmds[i].cmd = "EXEC" /\ ~upd[u].cmds[i].ok

\* C15. A backend command of has_with_results, update or get_part_ref that
\* fails is the last command its call issues (none is retried, none follows),
\* and the call returns an Internal error. When the append batch of an update
\* fails no RENAME is issued, and the key of the digest, which no other call
\* writes here, is as it was: absent if it was absent, else the same value.
C15_FailurePropagates ==
    /\ \A u \in Updates : FailureEnds(upd[u])
    /\ FailureEnds(get)
    /\ FailureEnds(has)
    /\ \A u \in Called :
           BatchFailed(u) =>
               /\ \A i \in 1 .. Len(upd[u].cmds) : upd[u].cmds[i].cmd # "RENAME"
               /\ FinalKey(u) \notin upd[u].wrote
               /\ FinalKey(u) \in DOMAIN db <=> FinalKey(u) \in DOMAIN db0
               /\ FinalKey(u) \in DOMAIN db => db[FinalKey(u)] = db0[FinalKey(u)]

\* C15 witness: all three calls failed on the backend: the update at its
\* batch of two appends, which the backend had applied; the read at its
\* second window, after a chunk had gone to the writer; the existence check
\* at its batch.
C15_Witness ==
    /\ BatchFailed(1)
    /\ Len(upd[1].pipe) = 2
    /\ upd[1].temp_key \in DOMAIN db
    /\ Len(get.cmds) = 2
    /\ ~get.cmds[2].ok
    /\ Len(wr.out) = 1
    /\ has.result = "Internal"
    /\ ~has.cmds[1].ok

\* The positions of the end-of-stream markers the writer was sent.
EofsSent == {i \in 1 .. Len(wr.out) : wr.out[i] = <<>>}

\* C16. End-of-stream protocol of get_part_ref, for every digest, offset and
\* length, over a backend whose commands may fail and a consumer that may go
\* away: an end-of-stream marker is the last thing the writer is sent and
\* the call that sent it has returned Ok; a call that returned Ok has sent
\* exactly one; a call that returned an error has sent none.
C16_EofProtocol ==
    /\ \A i \in EofsSent : i = Len(wr.out) /\ get.pc = "done" /\ get.result = "Ok"
    /\ get.pc = "done" =>
           IF get.result = "Ok" THEN EofsSent = {Len(wr.out)} /\ wr.out # <<>>
           ELSE EofsSent = {}

\* C16 witness: a read returned Ok having sent two data chunks and then the
\* end-of-stream marker.
C16_Witness ==
    /\ get.pc = "done"
    /\ get.result = "Ok"
    /\ Len(wr.out) = 3
    /\ EofsSent = {3}

\* The error half of C16 happens: a read failed on the backend after a data
\* chunk had gone to the writer.
C16_ErrorWitness ==
    /\ get.pc = "done"
    /\ get.result = "Internal"
    /\ Len(wr.out) = 1
    /\ EofsSent = {}

\* The windows the read has asked the backend for, in order.
Windows == SelectSeq(get.cmds, LAMBDA c : c.cmd = "GETRANGE")

\* Every window is at most CHUNK_SIZE bytes long, the first begins at the
\* offset, and each other begins right after the end of the one before it.
WindowsContiguous ==
    \A i \in 1 .. Len(Windows) :
        /\ Windows[i].end + 1 - Windows[i].start <= CHUNK_SIZE
        /\ Windows[i].start = IF i = 1 THEN get.offset ELSE Windows[i - 1].end + 1

\* In the loop, the window start is ahead of the offset by the bytes received
\* so far, all of which have gone to the writer once the chunk in hand has.
StartAdvances ==
    /\ get.pc \in {"loop", "send"} => get.current_start = get.offset + get.data_received
    /\ get.pc = "loop" => BytesSent = get.data_received

\* C17. The ranged-read loop terminates: over a blob of finite size, a
\* backend that answers every command and a consumer that takes every chunk,
\* a get_part_ref call that was begun eventually returns, having sent the
\* end-of-stream marker or with an error; all along, the window start has
\* advanced by the bytes delivered, and the windows asked for are contiguous,
\* do not overlap and are at most CHUNK_SIZE (64 KiB, scaled) long.
C17_LoopTerminates ==
    /\ [](WindowsContiguous /\ StartAdvances)
    /\ (get.pc # "idle") ~> (get.pc = "done" /\ (get.result = "Ok" => EofsSent # {}))

\* C17 witness: a read of a five-byte blob returned after three windows, the
\* third of which came back short.
C17_Witness ==
    /\ get.pc = "done"
    /\ get.result = "Ok"
    /\ Len(Windows) = 3
    /\ BytesSent = 5
    /\ get.was_partial_data

\* The stream of call u was received to its end: the marker was sent and
\* taken, nothing is left in the queue, and every data chunk sent is on the
\* pipeline, in order.
Drained(u) ==
    /\ StreamEnded(u)
    /\ chan[u].buf = <<>>
    /\ chan[u].sent = Len(chan[u].src)
    /\ upd[u].pipe = chan[u].src

\* C18. update drains the reader before it commits: a call for a non-zero
\* digest that is at its append batch or its rename, or has issued any
\* backend command, has received its whole stream, end-of-stream marker
\* included; and one that returned Ok has issued the RENAME last, the backend
\* has answered it, and the key of the digest was written by it.
C18_DrainsBeforeCommit ==
    \A u \in Called :
        ~is_zero_digest(upd[u].digest) =>
            /\ (upd[u].pc \in {"flush", "rename"} \/ upd[u].cmds # <<>>) => Drained(u)
            /\ upd[u].result = "Ok" =>
                   /\ upd[u].pc = "done"
                   /\ upd[u].cmds # <<>>
                   /\ upd[u].cmds[Len(upd[u].cmds)] = [cmd |-> "RENAME", ok |-> TRUE]
                   /\ FinalKey(u) \in upd[u].wrote

\* C18 witness: a call for a non-zero digest returned Ok after a stream of two
\* data chunks, its batch and its rename.
C18_Witness ==
    \E u \in Called :
        /\ ~is_zero_digest(upd[u].digest)
        /\ upd[u].result = "Ok"
        /\ Len(upd[u].pipe) = 2
        /\ upd[u].cmds = <<[cmd |-> "EXEC", ok |-> TRUE], [cmd |-> "RENAME", ok |-> TRUE]>>

\* C19. An update for a non-zero digest whose stream is the end-of-stream
\* marker alone queues no append and sends no batch; the temporary key does
\* not exist when the RENAME is issued, the RENAME fails, the call returns an
\* error and has written no key. So over a keyspace that was empty when the
\* store was constructed, no key, final or temporary, holds the empty value.
C19_EmptyStreamFails ==
    /\ \A u \in Called :
           ( /\ ~is_zero_digest(upd[u].digest)
             /\ chan[u].src = <<>>
             /\ upd[u].pc = "done"
             /\ StreamEnded(u) )
           => /\ upd[u].cmds = <<[cmd |-> "RENAME", ok |-> FALSE]>>
              /\ ErrorKind(upd[u].result) = "Internal"
              /\ upd[u].wrote = {}
              /\ upd[u].temp_key \notin DOMAIN db
    /\ db0 = EmptyDb => \A k \in DOMAIN db : db[k] # <<>>

\* C19 witness: over a keyspace that was empty, a call with an empty stream
\* for a non-zero digest has failed while another call for the same digest
\* has its chunks under its temporary key, and the final key does not exist.
C19_Witness ==
    \E u, v \in Called :
        /\ u # v
        /\ db0 = EmptyDb
        /\ ~is_zero_digest(upd[u].digest)
        /\ upd[v].digest = upd[u].digest
        /\ chan[u].src = <<>>
        /\ upd[u].pc = "done"
        /\ upd[u].result = "Internal"
        /\ upd[v].pc = "rename"
        /\ upd[v].temp_key \in DOMAIN db
        /\ FinalKey(u) \notin DOMAIN db

\* A read of a non-zero digest whose key does not exist, with no length or
\* a length of Some(L), L > 0, is over.
AbsentReadDone ==
    /\ ReadDone
    /\ ~is_zero_digest(get.digest)
    /\ ReadKey \notin DOMAIN db
    /\ get.length # 0

\* C20 as stated: every such read, whatever its offset and length, returns Ok
\* having asked for one window, which came back empty, and having sent the
\* writer the end-of-stream marker alone.
C20_AsStated ==
    AbsentReadDone =>
        /\ get.result = "Ok"
        /\ Len(Windows) = 1
        /\ wr.out = << <<>> >>

\* The part of C20 the code keeps: no such read fails with NotFound, and the
\* ones whose offset + length (isize::MAX for no length) is at most
\* isize::MAX return Ok as stated; the others fail in the conversion to isize
\* before any window is asked for, and the writer is sent nothing.
C20_InRange ==
    AbsentReadDone =>
        /\ get.result # "NotFound"
        /\ IF get.offset + max_length_of(get.length) <= ISIZE_MAX
           THEN /\ get.result = "Ok"
                /\ Len(Windows) = 1
                /\ wr.out = << <<>> >>
           ELSE /\ get.result = "ConvertErr"
                /\ get.cmds = <<>>
                /\ wr.out = <<>>

\* C20_InRange's case: a read of an absent digest from offset 1 with a length
\* of Some(3) returned Ok.
C20_InRangeWitness ==
    /\ AbsentReadDone
    /\ get.offset = 1
    /\ get.length = 3
    /\ get.result = "Ok"

====
